---- MODULE Spec2Model ----
(***************************************************************************)
(* The appointment scheduling and lifecycle engine of beyond-speech:       *)
(* backend/src/routes/appointments.ts (create, update, cancel), the        *)
(* provider profile routes, the payment routes and the Stripe webhook      *)
(* handlers that write an appointment's paymentStatus, and the             *)
(* confirmation e-mails of the create handler.                             *)
(*                                                                         *)
(* Time is counted in half minutes (30 s): a Date is the number of half    *)
(* minutes since an arbitrary origin, so Math.round(ms / (1000 * 60)) is   *)
(* a rounding of half-minute counts to minutes.  An optional value is a    *)
(* sequence: << >> when absent (undefined / null), <<v>> when present.     *)
(***************************************************************************)
EXTENDS Integers, Sequences, FiniteSets, TLC

VARIABLES
    now,            \* the server clock, new Date()
    providers,      \* the providerProfile table, by id
    appointments,   \* the appointment table: the row of id i is appointments[i]
    statusLog,      \* history: statusLog[i] lists the statuses written to row i
    resp,           \* the response sent by the latest step
    inflight,       \* the create requests being handled, by request
    payments,       \* the payment table: the row of id i is payments[i]
    outbox          \* the e-mails the handlers have asked the mail service to send

vars == <<now, providers, appointments, statusLog, resp, inflight, payments, outbox>>

-----------------------------------------------------------------------------
(* Bounds of the model *)

MaxAppointments == 2
MaxNow == 2
MaxTime == 4

(* Program constants *)

HorizonDays == 90

Horizon == HorizonDays * 24 * 60 * 2

-----------------------------------------------------------------------------
(* The data the requests are drawn from *)

None == << >>

Some(v) == <<v>>

Option(S) == {None} \cup {Some(v) : v \in S}

ProviderIds == {"prov1", "prov2", "prov3"}

Users == {"client1", "client2", "slp1", "slp2", "slp3", "admin"}

role(user) ==
    CASE user = "admin" -> "ADMIN"
      [] user \in {"slp1", "slp2", "slp3"} -> "SLP"
      [] OTHER -> "FAMILY"

AppointmentStatus ==
    {"SCHEDULED", "CONFIRMED", "IN_PROGRESS", "COMPLETED", "CANCELLED", "NO_SHOW"}

NearTimes == 1..MaxTime

(* The intervals create requests ask for: every proper interval of near    *)
(* times, an empty and a reversed one.                                     *)
Slots == {slot \in NearTimes \X NearTimes : slot[1] < slot[2]} \cup {<<2, 2>>, <<3, 2>>}

(* Intervals around the two ends of the booking window of the initial      *)
(* clock, and an empty one.                                                *)
WindowSlots ==
    {<<0, 1>>, <<1, 2>>, <<2, 2>>,
     <<Horizon + 1, Horizon + 2>>, <<Horizon + 2, Horizon + 3>>, <<Horizon + 3, Horizon + 4>>}

Reasons == {"sick"}

NoResponse == [op |-> "none", status |-> 0, message |-> ""]

Response(op, status, message) == [op |-> op, status |-> status, message |-> message]

-----------------------------------------------------------------------------
(* router.post('/') : the checks of the create handler *)

(* A faulty variant of providerVerified: the background check is ignored *)
licenseOnlyVerified(provider) == provider.licenseVerified

providerVerified(provider) == provider.licenseVerified /\ provider.backgroundCheck

isBefore(date, dateToCompare) == date < dateToCompare

(* A faulty variant of isAfter: the far end of the window is excluded *)
isAfterOrEqual(date, dateToCompare) == date >= dateToCompare

isAfter(date, dateToCompare) == date > dateToCompare

addDays(date, amount) == date + amount * 24 * 60 * 2

(* A faulty variant of activeStatuses: cancelled appointments still block *)
uncompletedStatuses == {"SCHEDULED", "CONFIRMED", "IN_PROGRESS", "CANCELLED"}

activeStatuses == {"SCHEDULED", "CONFIRMED", "IN_PROGRESS"}

(* A faulty variant of conflictWhere: a refunded appointment frees its slot *)
unrefundedConflictWhere(row, providerId, startTime, endTime) ==
    /\ row.providerId = providerId
    /\ row.status \in activeStatuses
    /\ row.paymentStatus # "REFUNDED"
    /\ \/ (row.startTime >= startTime /\ row.startTime < endTime)
       \/ (row.endTime > startTime /\ row.endTime <= endTime)

conflictWhere(row, providerId, startTime, endTime) ==
    /\ row.providerId = providerId
    /\ row.status \in activeStatuses
    /\ \/ (row.startTime >= startTime /\ row.startTime < endTime)
       \/ (row.endTime > startTime /\ row.endTime <= endTime)

conflictingAppointment(rows, providerId, startTime, endTime) ==
    {id \in DOMAIN rows : conflictWhere(rows[id], providerId, startTime, endTime)}

round(num, den) == (2 * num + den) \div (2 * den)

duration(startTime, endTime) == round(endTime - startTime, 2)

totalAmount(hourlyRate, dur) == [num |-> hourlyRate * dur, den |-> 60]

newAppointment(user, providerId, startTime, endTime, provider) ==
    [clientId |-> user,
     providerId |-> providerId,
     startTime |-> startTime,
     endTime |-> endTime,
     duration |-> duration(startTime, endTime),
     hourlyRate |-> provider.hourlyRate,
     totalAmount |-> totalAmount(provider.hourlyRate, duration(startTime, endTime)),
     status |-> "SCHEDULED",
     paymentStatus |-> "PENDING",
     cancelledAt |-> None,
     cancellationReason |-> None]

(* The response of the checks made before the conflict query, NoResponse   *)
(* when they all pass.                                                     *)
providerAndDateCheck(provs, clock, providerId, startTime) ==
    IF providerId \notin DOMAIN provs
    THEN Response("create", 404, "Provider not found")
    ELSE IF ~providerVerified(provs[providerId])
    THEN Response("create", 400, "Provider is not verified")
    ELSE IF isBefore(startTime, clock)
    THEN Response("create", 400, "Cannot schedule appointments in the past")
    ELSE IF isAfter(startTime, addDays(clock, HorizonDays))
    THEN Response("create", 400, "Cannot schedule appointments more than 90 days in advance")
    ELSE NoResponse

conflictCheck(rows, providerId, startTime, endTime) ==
    IF conflictingAppointment(rows, providerId, startTime, endTime) # {}
    THEN Response("create", 400, "Provider has a conflicting appointment at this time")
    ELSE NoResponse

created == Response("create", 201, "Appointment created successfully")

(* What the mail service answers to a request *)
MailOutcomes == {"sent", "failed"}

(* A faulty variant of confirmationResponse: a failed e-mail fails the     *)
(* request                                                                 *)
failingConfirmationResponse(outcome) ==
    IF outcome = "failed" THEN Response("create", 500, "Failed to send email") ELSE created

(* The response of the create handler once its e-mails are sent or have    *)
(* thrown: the catch block logs and goes on.                               *)
confirmationResponse(outcome) == created

(* emailService.sendAppointmentConfirmation(email, ...) about the          *)
(* appointment of this id, as a request to the mail service                *)
confirmation(id, to) == [kind |-> "confirmation", appointmentId |-> id, to |-> to]

-----------------------------------------------------------------------------
(* router.put('/:id') and router.patch('/:id/cancel') *)

AppointmentIds == 1..(MaxAppointments + 1)

(* Bodies of update requests: those that move the interval and those that  *)
(* ask for a status, with or without a cancellation reason.                *)
TimeUpdates ==
    [startTime : Option({1}),
     endTime : Option({MaxTime}),
     status : {None},
     cancellationReason : {None}]

StatusUpdates ==
    [startTime : {None},
     endTime : {None},
     status : Option(AppointmentStatus),
     cancellationReason : {None}]
        \cup [startTime : {None},
              endTime : {None},
              status : {None, Some("CANCELLED")},
              cancellationReason : {Some(reason) : reason \in Reasons}]

canUpdate(provs, user, appointment) ==
    \/ role(user) = "ADMIN"
    \/ appointment.clientId = user
    \/ provs[appointment.providerId].userId = user

(* A faulty variant of canCancel: any provider may cancel *)
anyProviderCanCancel(provs, user, appointment) ==
    \/ role(user) = "ADMIN"
    \/ appointment.clientId = user
    \/ role(user) = "SLP"

canCancel(provs, user, appointment) ==
    \/ role(user) = "ADMIN"
    \/ appointment.clientId = user
    \/ provs[appointment.providerId].userId = user

(* Faulty variants of validTransitions: Scheduled to Completed, Scheduled  *)
(* to InProgress, Confirmed to NoShow                                      *)
skippingTransitions(status) ==
    CASE status = "SCHEDULED" -> {"CONFIRMED", "CANCELLED", "COMPLETED"}
      [] status = "CONFIRMED" -> {"IN_PROGRESS", "CANCELLED"}
      [] status = "IN_PROGRESS" -> {"COMPLETED", "CANCELLED"}
      [] OTHER -> {}

shortcutTransitions(status) ==
    CASE status = "SCHEDULED" -> {"CONFIRMED", "IN_PROGRESS", "CANCELLED"}
      [] status = "CONFIRMED" -> {"IN_PROGRESS", "CANCELLED"}
      [] status = "IN_PROGRESS" -> {"COMPLETED", "CANCELLED"}
      [] OTHER -> {}

noShowTransitions(status) ==
    CASE status = "SCHEDULED" -> {"CONFIRMED", "CANCELLED"}
      [] status = "CONFIRMED" -> {"IN_PROGRESS", "CANCELLED", "NO_SHOW"}
      [] status = "IN_PROGRESS" -> {"COMPLETED", "CANCELLED"}
      [] OTHER -> {}

validTransitions(status) ==
    CASE status = "SCHEDULED" -> {"CONFIRMED", "CANCELLED"}
      [] status = "CONFIRMED" -> {"IN_PROGRESS", "CANCELLED"}
      [] status = "IN_PROGRESS" -> {"COMPLETED", "CANCELLED"}
      [] status = "COMPLETED" -> {}
      [] status = "CANCELLED" -> {}
      [] status = "NO_SHOW" -> {}

updateCheck(rows, provs, user, id, updateData) ==
    IF id \notin DOMAIN rows
    THEN Response("update", 404, "Appointment not found")
    ELSE IF ~canUpdate(provs, user, rows[id])
    THEN Response("update", 403, "Access denied")
    ELSE IF /\ updateData.status # None
            /\ updateData.status[1] \notin validTransitions(rows[id].status)
    THEN Response("update", 400, "Cannot change status")
    ELSE NoResponse

(* A faulty variant of applyUpdate: the time of cancellation is not written *)
updateWithoutCancelledAt(appointment, updateData, clock) ==
    [appointment EXCEPT
        !.startTime = IF updateData.startTime # None THEN updateData.startTime[1] ELSE @,
        !.endTime = IF updateData.endTime # None THEN updateData.endTime[1] ELSE @,
        !.status = IF updateData.status # None THEN updateData.status[1] ELSE @,
        !.cancellationReason =
            IF updateData.cancellationReason # None THEN updateData.cancellationReason ELSE @]

(* A faulty variant of applyUpdate: a change of status resets the payment *)
updateResettingPayment(appointment, updateData, clock) ==
    [appointment EXCEPT
        !.startTime = IF updateData.startTime # None THEN updateData.startTime[1] ELSE @,
        !.endTime = IF updateData.endTime # None THEN updateData.endTime[1] ELSE @,
        !.status = IF updateData.status # None THEN updateData.status[1] ELSE @,
        !.paymentStatus = IF updateData.status # None THEN "PENDING" ELSE @,
        !.cancellationReason =
            IF updateData.cancellationReason # None THEN updateData.cancellationReason ELSE @,
        !.cancelledAt = IF updateData.status = Some("CANCELLED") THEN Some(clock) ELSE @]

applyUpdate(appointment, updateData, clock) ==
    [appointment EXCEPT
        !.startTime = IF updateData.startTime # None THEN updateData.startTime[1] ELSE @,
        !.endTime = IF updateData.endTime # None THEN updateData.endTime[1] ELSE @,
        !.status = IF updateData.status # None THEN updateData.status[1] ELSE @,
        !.cancellationReason =
            IF updateData.cancellationReason # None THEN updateData.cancellationReason ELSE @,
        !.cancelledAt = IF updateData.status = Some("CANCELLED") THEN Some(clock) ELSE @]

(* A faulty variant of updated: the handler writes, then rejects *)
updatedThenRejected == Response("update", 400, "Cannot change status")

updated == Response("update", 200, "Appointment updated successfully")

(* A faulty variant of uncancellable: Cancelled can be cancelled again *)
onlyCompletedUncancellable == {"COMPLETED", "NO_SHOW"}

uncancellable == {"COMPLETED", "CANCELLED", "NO_SHOW"}

cancelCheck(rows, provs, user, id) ==
    IF id \notin DOMAIN rows
    THEN Response("cancel", 404, "Appointment not found")
    ELSE IF ~canCancel(provs, user, rows[id])
    THEN Response("cancel", 403, "Access denied")
    ELSE IF rows[id].status \in uncancellable
    THEN Response("cancel", 400, "Appointment cannot be cancelled")
    ELSE NoResponse

applyCancel(appointment, reason, clock) ==
    [appointment EXCEPT
        !.status = "CANCELLED",
        !.cancelledAt = Some(clock),
        !.cancellationReason = IF reason # None THEN reason ELSE @]

(* A faulty variant of cancelWrite: the row is deleted *)
cancelDelete(rows, id, reason, clock) ==
    SubSeq(rows, 1, id - 1) \o SubSeq(rows, id + 1, Len(rows))

(* prisma.appointment.update({ where: { id }, data }) of the cancel route *)
cancelWrite(rows, id, reason, clock) ==
    [rows EXCEPT ![id] = applyCancel(@, reason, clock)]

cancelled == Response("cancel", 200, "Appointment cancelled successfully")

-----------------------------------------------------------------------------
(* The payment routes, the Stripe webhook handlers and the provider        *)
(* profile route                                                           *)

PaymentIntents == {"pi_1"}

IntentStatuses == {"succeeded", "processing"}

Rates == {150}

(* A faulty variant of setPaymentStatus: the amount is settled as well *)
settlePaymentStatus(appointment, paymentStatus) ==
    [appointment EXCEPT
        !.paymentStatus = paymentStatus,
        !.totalAmount = [num |-> 0, den |-> 60]]

(* prisma.appointment.update({ where: { id }, data: { paymentStatus } }) *)
setPaymentStatus(appointment, paymentStatus) ==
    [appointment EXCEPT !.paymentStatus = paymentStatus]

existingPayment(rows, paymentIntentId) ==
    {id \in DOMAIN rows : rows[id].stripePaymentId = paymentIntentId}

newPayment(userId, appointmentId, status, paymentIntentId) ==
    [userId |-> userId,
     appointmentId |-> appointmentId,
     status |-> status,
     stripePaymentId |-> paymentIntentId]

(* The answer to a request whose handler threw an error that is not one   *)
(* of its own, here the update of a row that does not exist                *)
serverError(op) == Response(op, 500, "Internal server error")

-----------------------------------------------------------------------------
(* Requests handled at the same time: each await of a handler is a step    *)

Requests == {"r1", "r2"}

Idle == [pc |-> "idle"]

-----------------------------------------------------------------------------
Init ==
    /\ now = 1
    /\ providers =
           [p \in ProviderIds |->
               CASE p = "prov1" ->
                        [userId |-> "slp1", licenseVerified |-> TRUE,
                         backgroundCheck |-> TRUE, hourlyRate |-> 120]
                 [] p = "prov2" ->
                        [userId |-> "slp2", licenseVerified |-> TRUE,
                         backgroundCheck |-> TRUE, hourlyRate |-> 95]
                 [] OTHER ->
                        [userId |-> "slp3", licenseVerified |-> TRUE,
                         backgroundCheck |-> FALSE, hourlyRate |-> 80]]
    /\ appointments = << >>
    /\ statusLog = << >>
    /\ resp = NoResponse
    /\ inflight = [r \in Requests |-> Idle]
    /\ payments = << >>
    /\ outbox = {}

(* router.post('/') run from request to response with no other request     *)
(* in between, the mail service delivering both confirmations.             *)
CreateAppointment(user, providerId, startTime, endTime) ==
    LET early == providerAndDateCheck(providers, now, providerId, startTime)
        conflict == conflictCheck(appointments, providerId, startTime, endTime)
    IN  /\ IF early # NoResponse
           THEN /\ resp' = early
                /\ UNCHANGED <<appointments, statusLog, outbox>>
           ELSE IF conflict # NoResponse
           THEN /\ resp' = conflict
                /\ UNCHANGED <<appointments, statusLog, outbox>>
           ELSE /\ Len(appointments) < MaxAppointments
                /\ appointments' =
                       Append(appointments,
                              newAppointment(user, providerId, startTime, endTime,
                                             providers[providerId]))
                /\ statusLog' = Append(statusLog, <<"SCHEDULED">>)
                /\ outbox' =
                       outbox \cup {confirmation(Len(appointments) + 1, user),
                                    confirmation(Len(appointments) + 1,
                                                 providers[providerId].userId)}
                /\ resp' = created
        /\ UNCHANGED <<now, providers, inflight, payments>>

(* router.put('/:id') *)
UpdateAppointment(user, id, updateData) ==
    LET early == updateCheck(appointments, providers, user, id, updateData)
    IN  /\ IF early # NoResponse
           THEN /\ resp' = early
                /\ UNCHANGED <<appointments, statusLog>>
           ELSE /\ appointments' =
                       [appointments EXCEPT ![id] = applyUpdate(@, updateData, now)]
                /\ statusLog' =
                       IF updateData.status # None
                       THEN [statusLog EXCEPT ![id] = Append(@, updateData.status[1])]
                       ELSE statusLog
                /\ resp' = updated
        /\ UNCHANGED <<now, providers, inflight, payments, outbox>>

(* schemas.updateAppointment of the fields of the model: Joi.string()      *)
(* does not accept the empty string.                                       *)
validUpdateBody(updateData) ==
    /\ updateData.status \in Option(AppointmentStatus)
    /\ updateData.cancellationReason # Some("")

validationError == Response("update", 400, "Validation error")

(* router.put('/:id') with its validate(schemas.updateAppointment)         *)
(* middleware in front                                                     *)
ValidatedUpdate(user, id, updateData) ==
    IF validUpdateBody(updateData)
    THEN UpdateAppointment(user, id, updateData)
    ELSE /\ resp' = validationError
         /\ UNCHANGED <<now, providers, appointments, statusLog, inflight, payments, outbox>>

(* router.patch('/:id/cancel') *)
CancelAppointment(user, id, reason) ==
    LET early == cancelCheck(appointments, providers, user, id)
    IN  /\ IF early # NoResponse
           THEN /\ resp' = early
                /\ UNCHANGED <<appointments, statusLog>>
           ELSE /\ appointments' = cancelWrite(appointments, id, reason, now)
                /\ statusLog' = [statusLog EXCEPT ![id] = Append(@, "CANCELLED")]
                /\ resp' = cancelled
        /\ UNCHANGED <<now, providers, inflight, payments, outbox>>

(* router.patch('/:id/verify') of the providers route, called by an admin  *)
VerifyProvider(id, licenseVerified, backgroundCheck) ==
    /\ providers' =
           [providers EXCEPT
               ![id].licenseVerified =
                   IF licenseVerified # None THEN licenseVerified[1] ELSE @,
               ![id].backgroundCheck =
                   IF backgroundCheck # None THEN backgroundCheck[1] ELSE @]
    /\ resp' = Response("verify", 200, "Provider verification status updated successfully")
    /\ UNCHANGED <<now, appointments, statusLog, inflight, payments, outbox>>

(* router.post('/confirm') of the payment routes; intentStatus is what     *)
(* Stripe reports for the payment intent                                   *)
ConfirmPayment(user, paymentIntentId, appointmentId, intentStatus) ==
    /\ IF intentStatus # "succeeded"
       THEN /\ resp' = Response("confirm", 400, "Payment not completed")
            /\ UNCHANGED <<payments, appointments>>
       ELSE IF existingPayment(payments, paymentIntentId) # {}
       THEN /\ resp' = Response("confirm", 400, "Payment already processed")
            /\ UNCHANGED <<payments, appointments>>
       ELSE /\ payments' =
                   Append(payments,
                          newPayment(user, appointmentId, "COMPLETED", paymentIntentId))
            /\ IF appointmentId = None
               THEN /\ resp' = Response("confirm", 200, "Payment confirmed successfully")
                    /\ UNCHANGED appointments
               ELSE IF appointmentId[1] \in DOMAIN appointments
               THEN /\ appointments' =
                           [appointments EXCEPT
                               ![appointmentId[1]] = setPaymentStatus(@, "COMPLETED")]
                    /\ resp' = Response("confirm", 200, "Payment confirmed successfully")
               ELSE /\ resp' = serverError("confirm")
                    /\ UNCHANGED appointments
    /\ UNCHANGED <<now, providers, statusLog, inflight, outbox>>

(* router.post('/:id/refund') of the payment routes, called by an admin,   *)
(* Stripe accepting the refund                                             *)
RefundPayment(id) ==
    /\ IF id \notin DOMAIN payments
       THEN /\ resp' = Response("refund", 404, "Payment not found")
            /\ UNCHANGED <<payments, appointments>>
       ELSE IF payments[id].status # "COMPLETED"
       THEN /\ resp' = Response("refund", 400, "Only completed payments can be refunded")
            /\ UNCHANGED <<payments, appointments>>
       ELSE /\ payments' = [payments EXCEPT ![id].status = "REFUNDED"]
            /\ IF payments[id].appointmentId = None
               THEN /\ resp' = Response("refund", 200, "Payment refunded successfully")
                    /\ UNCHANGED appointments
               ELSE IF payments[id].appointmentId[1] \in DOMAIN appointments
               THEN /\ appointments' =
                           [appointments EXCEPT
                               ![payments[id].appointmentId[1]] = setPaymentStatus(@, "REFUNDED")]
                    /\ resp' = Response("refund", 200, "Payment refunded successfully")
               ELSE /\ resp' = serverError("refund")
                    /\ UNCHANGED appointments
    /\ UNCHANGED <<now, providers, statusLog, inflight, outbox>>

(* handlePaymentIntentSucceeded of the Stripe webhook: userId and          *)
(* appointmentId are the metadata of the payment intent; what the handler  *)
(* throws is caught and logged                                             *)
PaymentIntentSucceeded(userId, paymentIntentId, appointmentId) ==
    /\ IF userId = None \/ existingPayment(payments, paymentIntentId) # {}
       THEN UNCHANGED <<payments, appointments>>
       ELSE /\ payments' =
                   Append(payments,
                          newPayment(userId[1], appointmentId, "COMPLETED", paymentIntentId))
            /\ IF appointmentId # None /\ appointmentId[1] \in DOMAIN appointments
               THEN appointments' =
                        [appointments EXCEPT
                            ![appointmentId[1]] = setPaymentStatus(@, "COMPLETED")]
               ELSE UNCHANGED appointments
    /\ resp' = Response("webhook", 200, "Webhook processed successfully")
    /\ UNCHANGED <<now, providers, statusLog, inflight, outbox>>

(* handlePaymentIntentFailed of the Stripe webhook: the payment of the     *)
(* intent is upserted as FAILED                                            *)
PaymentIntentFailed(userId, paymentIntentId, appointmentId) ==
    /\ IF userId = None
       THEN UNCHANGED <<payments, appointments>>
       ELSE /\ payments' =
                   IF existingPayment(payments, paymentIntentId) # {}
                   THEN [id \in DOMAIN payments |->
                            IF id \in existingPayment(payments, paymentIntentId)
                            THEN [payments[id] EXCEPT !.status = "FAILED"]
                            ELSE payments[id]]
                   ELSE Append(payments,
                               newPayment(userId[1], appointmentId, "FAILED", paymentIntentId))
            /\ IF appointmentId # None /\ appointmentId[1] \in DOMAIN appointments
               THEN appointments' =
                        [appointments EXCEPT
                            ![appointmentId[1]] = setPaymentStatus(@, "FAILED")]
               ELSE UNCHANGED appointments
    /\ resp' = Response("webhook", 200, "Webhook processed successfully")
    /\ UNCHANGED <<now, providers, statusLog, inflight, outbox>>

(* router.put('/:id') of the providers route, with the hourlyRate of the   *)
(* body                                                                    *)
UpdateProviderProfile(user, id, hourlyRate) ==
    /\ IF id \notin DOMAIN providers
       THEN /\ resp' = Response("profile", 404, "Provider profile not found")
            /\ UNCHANGED providers
       ELSE IF role(user) # "ADMIN" /\ providers[id].userId # user
       THEN /\ resp' = Response("profile", 403, "Access denied")
            /\ UNCHANGED providers
       ELSE /\ providers' =
                   [providers EXCEPT
                       ![id].hourlyRate = IF hourlyRate # None THEN hourlyRate[1] ELSE @]
            /\ resp' = Response("profile", 200, "Provider profile updated successfully")
    /\ UNCHANGED <<now, appointments, statusLog, inflight, payments, outbox>>

(* The clock advances *)
Tick ==
    /\ now < MaxNow
    /\ now' = now + 1
    /\ resp' = NoResponse
    /\ UNCHANGED <<providers, appointments, statusLog, inflight, payments, outbox>>

(* router.post('/') step by step.  First await: the provider is read, and *)
(* the handler checks it and the start time before it issues the conflict  *)
(* query.                                                                  *)
CreateLookup(r, user, providerId, startTime, endTime) ==
    LET early == providerAndDateCheck(providers, now, providerId, startTime)
    IN  /\ inflight[r] = Idle
        /\ IF early # NoResponse
           THEN /\ inflight' = [inflight EXCEPT ![r] = [pc |-> "done", resp |-> early]]
                /\ resp' = early
           ELSE /\ inflight' =
                       [inflight EXCEPT ![r] =
                           [pc |-> "findFirst", user |-> user, providerId |-> providerId,
                            startTime |-> startTime, endTime |-> endTime,
                            provider |-> providers[providerId]]]
                /\ UNCHANGED resp
        /\ UNCHANGED <<now, providers, appointments, statusLog, payments, outbox>>

(* Second await: prisma.appointment.findFirst reads the table *)
CreateFindFirst(r) ==
    LET req == inflight[r]
        conflict == conflictCheck(appointments, req.providerId, req.startTime, req.endTime)
    IN  /\ req.pc = "findFirst"
        /\ IF conflict # NoResponse
           THEN /\ inflight' =
                       [inflight EXCEPT ![r] =
                           [pc |-> "done", resp |-> conflict, providerId |-> req.providerId,
                            startTime |-> req.startTime, endTime |-> req.endTime]]
                /\ resp' = conflict
           ELSE /\ inflight' = [inflight EXCEPT ![r].pc = "insert"]
                /\ UNCHANGED resp
        /\ UNCHANGED <<now, providers, appointments, statusLog, payments, outbox>>

(* Third await: prisma.appointment.create inserts the row; the handler     *)
(* then asks for the client's confirmation and awaits the mail service     *)
CreateInsert(r) ==
    LET req == inflight[r]
        id == Len(appointments) + 1
    IN  /\ req.pc = "insert"
        /\ Len(appointments) < MaxAppointments
        /\ appointments' =
               Append(appointments,
                      newAppointment(req.user, req.providerId, req.startTime, req.endTime,
                                     req.provider))
        /\ statusLog' = Append(statusLog, <<"SCHEDULED">>)
        /\ outbox' = outbox \cup {confirmation(id, req.user)}
        /\ inflight' =
               [inflight EXCEPT ![r] =
                   [pc |-> "confirmClient", id |-> id, user |-> req.user,
                    providerId |-> req.providerId, startTime |-> req.startTime,
                    endTime |-> req.endTime, provider |-> req.provider]]
        /\ UNCHANGED <<now, providers, resp, payments>>

(* The mail service answers the confirmation the handler awaits: when the  *)
(* client's is sent the handler asks for the provider's; when either       *)
(* throws, or the provider's is sent, the handler sends its response.      *)
ConfirmationAnswer(r, outcome) ==
    LET req == inflight[r]
        finished ==
            [pc |-> "done", resp |-> confirmationResponse(outcome), id |-> req.id,
             providerId |-> req.providerId, startTime |-> req.startTime,
             endTime |-> req.endTime]
    IN  /\ req.pc \in {"confirmClient", "confirmProvider"}
        /\ IF req.pc = "confirmClient" /\ outcome = "sent"
           THEN /\ outbox' = outbox \cup {confirmation(req.id, req.provider.userId)}
                /\ inflight' = [inflight EXCEPT ![r].pc = "confirmProvider"]
                /\ UNCHANGED resp
           ELSE /\ inflight' = [inflight EXCEPT ![r] = finished]
                /\ resp' = finished.resp
                /\ UNCHANGED outbox
        /\ UNCHANGED <<now, providers, appointments, statusLog, payments>>

(* router.put('/:id') step by step.  First await: findUnique reads the     *)
(* appointment, and the handler checks the caller and the transition       *)
(* against the row it read before it issues the update.                    *)
UpdateRead(r, user, id, updateData) ==
    LET early == updateCheck(appointments, providers, user, id, updateData)
    IN  /\ inflight[r] = Idle
        /\ IF early # NoResponse
           THEN /\ inflight' = [inflight EXCEPT ![r] = [pc |-> "done", resp |-> early]]
                /\ resp' = early
           ELSE /\ inflight' =
                       [inflight EXCEPT ![r] =
                           [pc |-> "updateWrite", id |-> id, updateData |-> updateData,
                            read |-> appointments[id].status]]
                /\ UNCHANGED resp
        /\ UNCHANGED <<now, providers, appointments, statusLog, payments, outbox>>

(* Second await: prisma.appointment.update writes the data of the request  *)
(* to the row as it is then.                                               *)
UpdateWrite(r) ==
    LET req == inflight[r]
    IN  /\ req.pc = "updateWrite"
        /\ appointments' =
               [appointments EXCEPT ![req.id] = applyUpdate(@, req.updateData, now)]
        /\ statusLog' =
               IF req.updateData.status # None
               THEN [statusLog EXCEPT ![req.id] = Append(@, req.updateData.status[1])]
               ELSE statusLog
        /\ inflight' =
               [inflight EXCEPT ![r] =
                   [pc |-> "done", resp |-> updated, id |-> req.id, read |-> req.read]]
        /\ resp' = updated
        /\ UNCHANGED <<now, providers, payments, outbox>>

(* router.patch('/:id/cancel') step by step.  First await: findUnique and  *)
(* the checks of the caller and of the status read.                        *)
CancelRead(r, user, id, reason) ==
    LET early == cancelCheck(appointments, providers, user, id)
    IN  /\ inflight[r] = Idle
        /\ IF early # NoResponse
           THEN /\ inflight' = [inflight EXCEPT ![r] = [pc |-> "done", resp |-> early]]
                /\ resp' = early
           ELSE /\ inflight' =
                       [inflight EXCEPT ![r] =
                           [pc |-> "cancelWrite", id |-> id, reason |-> reason,
                            read |-> appointments[id].status]]
                /\ UNCHANGED resp
        /\ UNCHANGED <<now, providers, appointments, statusLog, payments, outbox>>

(* Second await: prisma.appointment.update writes the cancellation *)
CancelWrite(r) ==
    LET req == inflight[r]
    IN  /\ req.pc = "cancelWrite"
        /\ appointments' = cancelWrite(appointments, req.id, req.reason, now)
        /\ statusLog' = [statusLog EXCEPT ![req.id] = Append(@, "CANCELLED")]
        /\ inflight' =
               [inflight EXCEPT ![r] =
                   [pc |-> "done", resp |-> cancelled, id |-> req.id, read |-> req.read]]
        /\ resp' = cancelled
        /\ UNCHANGED <<now, providers, payments, outbox>>

(* Booking: requests that place, move and cancel intervals *)
Next ==
    \/ \E providerId \in {"prov1", "prov2"}, slot \in Slots :
           CreateAppointment("client1", providerId, slot[1], slot[2])
    \/ \E user \in {"client1", "client2"}, id \in AppointmentIds, updateData \in TimeUpdates :
           UpdateAppointment(user, id, updateData)
    \/ \E id \in AppointmentIds : CancelAppointment("client1", id, Some("sick"))

Spec == Init /\ [][Next]_vars

(* Admission: eligibility of the provider and the booking window, while    *)
(* an admin changes a provider's verification and the clock advances       *)
AdmissionNext ==
    \/ \E providerId \in {"prov1", "prov3", "ghost"}, slot \in WindowSlots :
           CreateAppointment("client1", providerId, slot[1], slot[2])
    \/ \E licenseVerified \in Option(BOOLEAN), backgroundCheck \in Option(BOOLEAN) :
           VerifyProvider("prov3", licenseVerified, backgroundCheck)
    \/ Tick

AdmissionSpec == Init /\ [][AdmissionNext]_vars

(* Lifecycle: status requests of the client and of a stranger on the       *)
(* appointments booked, one after the other, in one slot                   *)
Callers == {"client1", "client2"}

LifecycleNext ==
    \/ CreateAppointment("client1", "prov1", 1, 3)
    \/ \E user \in Callers, id \in AppointmentIds, updateData \in StatusUpdates :
           UpdateAppointment(user, id, updateData)
    \/ \E user \in Callers, id \in AppointmentIds, reason \in Option(Reasons) :
           CancelAppointment(user, id, reason)

LifecycleSpec == Init /\ [][LifecycleNext]_vars

(* Rebooking: intervals booked next to, and in place of, appointments     *)
(* that are under way, over or cancelled                                   *)
ProgressUpdates ==
    [startTime : {None},
     endTime : {None},
     status : {Some("CONFIRMED"), Some("IN_PROGRESS"), Some("COMPLETED")},
     cancellationReason : {None}]

(* Two intervals that meet, the interval that covers both, and an empty    *)
(* one                                                                     *)
RebookingSlots == {<<1, 2>>, <<2, 3>>, <<1, 3>>, <<2, 2>>}

RebookingNext ==
    \/ \E slot \in RebookingSlots : CreateAppointment("client1", "prov1", slot[1], slot[2])
    \/ CreateAppointment("client1", "prov2", 1, 3)
    \/ \E id \in AppointmentIds, updateData \in ProgressUpdates :
           UpdateAppointment("client1", id, updateData)
    \/ \E id \in AppointmentIds : CancelAppointment("client1", id, None)

RebookingSpec == Init /\ [][RebookingNext]_vars

(* Access: every kind of caller asks to change and to cancel the           *)
(* appointments of two providers: their client, another client, the users  *)
(* of the two providers and an admin                                       *)
AccessCallers == {"client1", "client2", "slp1", "slp2", "admin"}

AccessUpdates ==
    {[startTime |-> None, endTime |-> None,
      status |-> Some("CONFIRMED"), cancellationReason |-> None],
     [startTime |-> None, endTime |-> Some(MaxTime),
      status |-> None, cancellationReason |-> None]}

AccessNext ==
    \/ \E providerId \in {"prov1", "prov2"} : CreateAppointment("client1", providerId, 1, 3)
    \/ \E user \in AccessCallers, id \in AppointmentIds, updateData \in AccessUpdates :
           UpdateAppointment(user, id, updateData)
    \/ \E user \in AccessCallers, id \in AppointmentIds : CancelAppointment(user, id, Some("sick"))

AccessSpec == Init /\ [][AccessNext]_vars

(* Money: the requests that follow a booking, the payments made for it     *)
(* and the provider changing the rate                                      *)
MoneyUpdates ==
    {[startTime |-> None, endTime |-> None,
      status |-> Some("CONFIRMED"), cancellationReason |-> None],
     [startTime |-> Some(2), endTime |-> Some(MaxTime),
      status |-> None, cancellationReason |-> None]}

(* The appointments payments name: the first one booked, and one that    *)
(* does not exist                                                          *)
PaidAppointments == Option({1, MaxAppointments + 1})

MoneyNext ==
    \/ CreateAppointment("client1", "prov1", 1, 3)
    \/ \E id \in AppointmentIds, updateData \in MoneyUpdates :
           UpdateAppointment("client1", id, updateData)
    \/ \E id \in AppointmentIds : CancelAppointment("slp1", id, Some("sick"))
    \/ \E paymentIntentId \in PaymentIntents, appointmentId \in PaidAppointments,
          intentStatus \in IntentStatuses :
           ConfirmPayment("client1", paymentIntentId, appointmentId, intentStatus)
    \/ \E id \in 1..Cardinality(PaymentIntents) + 1 : RefundPayment(id)
    \/ \E userId \in Option({"client1"}), paymentIntentId \in PaymentIntents,
          appointmentId \in PaidAppointments :
           PaymentIntentSucceeded(userId, paymentIntentId, appointmentId)
    \/ \E userId \in Option({"client1"}), paymentIntentId \in PaymentIntents,
          appointmentId \in PaidAppointments :
           PaymentIntentFailed(userId, paymentIntentId, appointmentId)
    \/ \E user \in {"slp1", "slp2"}, hourlyRate \in Option(Rates) :
           UpdateProviderProfile(user, "prov1", hourlyRate)

MoneySpec == Init /\ [][MoneyNext]_vars

(* Failures: requests that fail each check of the three routes *)
FailureSlots == {<<0, 1>>, <<1, 3>>, <<Horizon + 3, Horizon + 4>>}

FailureUpdates ==
    [startTime : {None},
     endTime : Option({MaxTime}),
     status : {Some("CONFIRMED"), Some("COMPLETED")},
     cancellationReason : {None}]

FailureNext ==
    \/ \E providerId \in {"prov1", "prov3"}, slot \in FailureSlots :
           CreateAppointment("client1", providerId, slot[1], slot[2])
    \/ \E user \in Callers, id \in AppointmentIds, updateData \in FailureUpdates :
           UpdateAppointment(user, id, updateData)
    \/ \E user \in Callers, id \in AppointmentIds : CancelAppointment(user, id, None)

FailureSpec == Init /\ [][FailureNext]_vars

(* Records: an appointment booked, paid, refunded, carried to its end or   *)
(* cancelled                                                               *)
StatusOnlyUpdates ==
    ProgressUpdates
        \cup {[startTime |-> None, endTime |-> None,
               status |-> Some("CANCELLED"), cancellationReason |-> Some("sick")]}

RecordsNext ==
    \/ CreateAppointment("client1", "prov1", 1, 3)
    \/ \E id \in AppointmentIds, updateData \in StatusOnlyUpdates :
           UpdateAppointment("client1", id, updateData)
    \/ \E id \in AppointmentIds : CancelAppointment("client1", id, Some("sick"))
    \/ \E appointmentId \in PaidAppointments :
           ConfirmPayment("client1", "pi_1", appointmentId, "succeeded")
    \/ RefundPayment(1)
    \/ PaymentIntentSucceeded(Some("client1"), "pi_1", Some(1))
    \/ PaymentIntentFailed(Some("client1"), "pi_1", Some(1))

RecordsSpec == Init /\ [][RecordsNext]_vars

(* Concurrency: two create requests whose steps interleave.  No interval   *)
(* offered here strictly contains another.                                 *)
ConcurrentSlots == {<<1, 3>>, <<2, 4>>, <<3, 4>>}

ConcurrentNext ==
    \/ \E r \in Requests, providerId \in {"prov1", "prov2"}, slot \in ConcurrentSlots :
           CreateLookup(r, "client1", providerId, slot[1], slot[2])
    \/ \E r \in Requests : CreateFindFirst(r)
    \/ \E r \in Requests : CreateInsert(r)
    \/ \E r \in Requests, outcome \in MailOutcomes : ConfirmationAnswer(r, outcome)

ConcurrentSpec == Init /\ [][ConcurrentNext]_vars

(* The same requests, the server running every handler that can go on;     *)
(* nothing is assumed of the mail service, which may never answer          *)
ConcurrentLiveSpec ==
    /\ ConcurrentSpec
    /\ \A r \in Requests : WF_vars(CreateFindFirst(r)) /\ WF_vars(CreateInsert(r))

(* Two ways to cancel: the cancel route and an update to Cancelled, with   *)
(* the reasons a caller can send, the empty one among them                 *)
CancelReasons == {"sick", ""}

cancelBody(reason) ==
    [startTime |-> None, endTime |-> None,
     status |-> Some("CANCELLED"), cancellationReason |-> reason]

EquivalenceNext ==
    \/ CreateAppointment("client1", "prov1", 1, 3)
    \/ \E user \in AccessCallers, id \in AppointmentIds, updateData \in ProgressUpdates :
           ValidatedUpdate(user, id, updateData)
    \/ \E user \in AccessCallers, id \in AppointmentIds, reason \in Option(CancelReasons) :
           ValidatedUpdate(user, id, cancelBody(reason))
    \/ \E user \in AccessCallers, id \in AppointmentIds, reason \in Option(CancelReasons) :
           CancelAppointment(user, id, reason)
    \/ Tick

EquivalenceSpec == Init /\ [][EquivalenceNext]_vars

(* Races: update and cancel requests on booked appointments whose reads    *)
(* and writes interleave                                                   *)
RaceNext ==
    \/ CreateAppointment("client1", "prov1", 1, 3)
    \/ \E r \in Requests, id \in AppointmentIds, updateData \in ProgressUpdates :
           UpdateRead(r, "client1", id, updateData)
    \/ \E r \in Requests : UpdateWrite(r)
    \/ \E r \in Requests, id \in AppointmentIds : CancelRead(r, "client1", id, Some("sick"))
    \/ \E r \in Requests : CancelWrite(r)

RaceSpec == Init /\ [][RaceNext]_vars

-----------------------------------------------------------------------------
(* The vocabulary of the specification, in terms of the responses the      *)
(* routes send.                                                            *)

NonTerminal == {"SCHEDULED", "CONFIRMED", "IN_PROGRESS"}

Terminal == {"COMPLETED", "CANCELLED", "NO_SHOW"}

TransitionTable ==
    {<<"SCHEDULED", "CONFIRMED">>, <<"SCHEDULED", "CANCELLED">>,
     <<"CONFIRMED", "IN_PROGRESS">>, <<"CONFIRMED", "CANCELLED">>,
     <<"IN_PROGRESS", "COMPLETED">>, <<"IN_PROGRESS", "CANCELLED">>}

ProviderNotEligible == Response("create", 400, "Provider is not verified")

PastBooking == Response("create", 400, "Cannot schedule appointments in the past")

BookingTooFarOut ==
    Response("create", 400, "Cannot schedule appointments more than 90 days in advance")

(* The rejections of the slot validation: an interval that is empty or    *)
(* reversed, a start in the past, a start beyond the horizon               *)
InvalidInterval == Response("create", 400, "End time must be after start time")

SlotErrors(startTime, endTime) ==
    IF endTime <= startTime
    THEN {InvalidInterval}
    ELSE IF startTime < now
    THEN {PastBooking}
    ELSE IF startTime > now + Horizon
    THEN {BookingTooFarOut}
    ELSE {}

SchedulingConflict ==
    Response("create", 400, "Provider has a conflicting appointment at this time")

IllegalStatusTransition == Response("update", 400, "Cannot change status")

(* [a, b) and [c, d) have a point in common *)
Overlap(a, b, c, d) == a < b /\ c < d /\ a < d /\ c < b

Eligible(providerId) ==
    /\ providerId \in DOMAIN providers
    /\ providers[providerId].licenseVerified
    /\ providers[providerId].backgroundCheck

(* An appointment of the provider that is not over and meets [a, b) *)
Blocking(providerId, a, b) ==
    {id \in DOMAIN appointments :
        /\ appointments[id].providerId = providerId
        /\ appointments[id].status \in NonTerminal
        /\ Overlap(a, b, appointments[id].startTime, appointments[id].endTime)}

(* An appointment of the provider that is not over and has its start or   *)
(* its end within [a, b], or meets [a, b)                                  *)
Touching(providerId, a, b) ==
    {id \in DOMAIN appointments :
        /\ appointments[id].providerId = providerId
        /\ appointments[id].status \in NonTerminal
        /\ \/ (a <= appointments[id].startTime /\ appointments[id].startTime <= b)
           \/ (a <= appointments[id].endTime /\ appointments[id].endTime <= b)
           \/ Overlap(a, b, appointments[id].startTime, appointments[id].endTime)}

PaymentStatuses == {"PENDING", "COMPLETED", "FAILED", "REFUNDED"}

NotFound(op) == Response(op, 404, "Appointment not found")

Forbidden(op) == Response(op, 403, "Access denied")

Authorised(user, id) ==
    \/ user = "admin"
    \/ appointments[id].clientId = user
    \/ providers[appointments[id].providerId].userId = user

-----------------------------------------------------------------------------
(* C1: no two distinct appointments of one provider whose intervals        *)
(* overlap are both Scheduled, Confirmed or InProgress.                    *)
C1_NoDoubleBooking ==
    \A i, j \in DOMAIN appointments :
        (/\ i # j
         /\ appointments[i].providerId = appointments[j].providerId
         /\ appointments[i].status \in NonTerminal
         /\ appointments[j].status \in NonTerminal)
        => ~Overlap(appointments[i].startTime, appointments[i].endTime,
                    appointments[j].startTime, appointments[j].endTime)

(* C2: while every stored interval is proper, a create request for a      *)
(* proper interval [a, b) that has passed the provider and date checks is  *)
(* answered with a conflict if and only if a non-terminal appointment      *)
(* [c, d) of the provider has a < d and c < b.                             *)
C2_ConflictIffOverlap ==
    [][\A providerId \in ProviderIds, slot \in Slots :
          (/\ slot[1] < slot[2]
           /\ \A id \in DOMAIN appointments :
                  appointments[id].startTime < appointments[id].endTime
           /\ providerAndDateCheck(providers, now, providerId, slot[1]) = NoResponse
           /\ CreateAppointment("client1", providerId, slot[1], slot[2]))
          => (resp' = SchedulingConflict <=> Blocking(providerId, slot[1], slot[2]) # {})]_vars

(* C3: of two create requests for one provider and overlapping intervals   *)
(* that both passed the provider and date checks, exactly one is answered  *)
(* with the created appointment and the other with a conflict.             *)
C3_ExactlyOneOfTwoConcurrent ==
    \A r1, r2 \in Requests :
        (/\ r1 # r2
         /\ inflight[r1].pc = "done"
         /\ inflight[r2].pc = "done"
         /\ inflight[r1].resp \in {created, SchedulingConflict}
         /\ inflight[r2].resp \in {created, SchedulingConflict}
         /\ inflight[r1].providerId = inflight[r2].providerId
         /\ Overlap(inflight[r1].startTime, inflight[r1].endTime,
                    inflight[r2].startTime, inflight[r2].endTime))
        => /\ {inflight[r1].resp, inflight[r2].resp} = {created, SchedulingConflict}
           /\ Cardinality(Blocking(inflight[r1].providerId, inflight[r1].startTime,
                                   inflight[r1].endTime)) = 1

(* C4: a status request of an authorised caller on an appointment of       *)
(* status from, asking for to, succeeds and stores to when (from, to) is   *)
(* in the transition table, and otherwise fails with a 400 and leaves the  *)
(* table as it was; the cancel route does the same for to = Cancelled.     *)
C4_TransitionTable ==
    [][/\ resp'.op = "update" =>
            \A user \in Callers, id \in DOMAIN appointments, updateData \in StatusUpdates :
                (/\ updateData.status # None
                 /\ Authorised(user, id)
                 /\ UpdateAppointment(user, id, updateData))
                => IF <<appointments[id].status, updateData.status[1]>> \in TransitionTable
                   THEN /\ resp' = updated
                        /\ appointments'[id].status = updateData.status[1]
                   ELSE /\ resp' = IllegalStatusTransition
                        /\ appointments' = appointments
       /\ resp'.op = "cancel" =>
            \A user \in Callers, id \in DOMAIN appointments, reason \in Option(Reasons) :
                (/\ Authorised(user, id)
                 /\ CancelAppointment(user, id, reason))
                => IF <<appointments[id].status, "CANCELLED">> \in TransitionTable
                   THEN /\ resp' = cancelled
                        /\ appointments'[id].status = "CANCELLED"
                   ELSE /\ resp'.status = 400
                        /\ appointments' = appointments]_vars

C4_Witness ==
    /\ resp = IllegalStatusTransition
    /\ \E id \in DOMAIN appointments : appointments[id].status = "IN_PROGRESS"

(* C5: no step changes the status of a Completed, Cancelled or NoShow      *)
(* appointment, and every status request and every cancel request on it    *)
(* fails and changes nothing, each time it is made.                        *)
C5_TerminalIsFinal ==
    [][/\ \A id \in DOMAIN appointments :
            appointments[id].status \in Terminal
            => appointments'[id].status = appointments[id].status
       /\ resp'.op = "update" =>
            \A user \in Callers, id \in DOMAIN appointments, updateData \in StatusUpdates :
                (/\ updateData.status # None
                 /\ appointments[id].status \in Terminal
                 /\ UpdateAppointment(user, id, updateData))
                => (resp'.status >= 400 /\ appointments' = appointments)
       /\ resp'.op = "cancel" =>
            \A user \in Callers, id \in DOMAIN appointments, reason \in Option(Reasons) :
                (/\ appointments[id].status \in Terminal
                 /\ CancelAppointment(user, id, reason))
                => (resp'.status >= 400 /\ appointments' = appointments)]_vars

C5_Witness ==
    /\ appointments # << >>
    /\ \A id \in DOMAIN appointments : appointments[id].status = "CANCELLED"
    /\ resp = Response("cancel", 400, "Appointment cannot be cancelled")

(* The statuses of seq contain Scheduled, Confirmed, InProgress in order *)
PassedThrough(seq) ==
    \E i, j, k \in DOMAIN seq :
        /\ i < j
        /\ j < k
        /\ seq[i] = "SCHEDULED"
        /\ seq[j] = "CONFIRMED"
        /\ seq[k] = "IN_PROGRESS"

(* C6: a Completed appointment has held Scheduled, Confirmed and           *)
(* InProgress in this order, and a request to complete a Scheduled         *)
(* appointment fails with the transition error.                            *)
C6_CompletedPassedThrough ==
    [][/\ \A id \in DOMAIN appointments' :
            appointments'[id].status = "COMPLETED" => PassedThrough(statusLog'[id])
       /\ resp'.op = "update" =>
            \A user \in Callers, id \in DOMAIN appointments :
                (/\ appointments[id].status = "SCHEDULED"
                 /\ Authorised(user, id)
                 /\ UpdateAppointment(user, id,
                        [startTime |-> None, endTime |-> None,
                         status |-> Some("COMPLETED"), cancellationReason |-> None]))
                => (resp' = IllegalStatusTransition /\ appointments' = appointments)]_vars

C6_Witness ==
    \E id \in DOMAIN appointments :
        /\ appointments[id].status = "COMPLETED"
        /\ statusLog[id] = <<"SCHEDULED", "CONFIRMED", "IN_PROGRESS", "COMPLETED">>

(* C7: no appointment has status NoShow *)
C7_NoShowUnreachable ==
    \A id \in DOMAIN appointments : appointments[id].status # "NO_SHOW"

C7_Witness ==
    /\ resp = IllegalStatusTransition
    /\ \E i, j \in DOMAIN appointments :
        /\ appointments[i].status = "COMPLETED"
        /\ appointments[j].status = "CANCELLED"

(* C8: a create request whose endTime is not after its startTime is        *)
(* rejected and stores no appointment.                                     *)
C8_InvalidIntervalRejected ==
    [][\A providerId \in ProviderIds, slot \in Slots :
          (/\ CreateAppointment("client1", providerId, slot[1], slot[2])
           /\ slot[2] <= slot[1])
          => (resp'.status = 400 /\ appointments' = appointments)]_vars

(* C9: a create request for a proper interval to an eligible provider for  *)
(* which the conflict query finds nothing is accepted if and only if       *)
(* now <= startTime <= now + 90 days, fails with PastBooking when          *)
(* startTime < now and with BookingTooFarOut when startTime is later than  *)
(* now + 90 days.                                                          *)
C9_BookingWindow ==
    [][\A providerId \in ProviderIds, slot \in WindowSlots :
          (/\ CreateAppointment("client1", providerId, slot[1], slot[2])
           /\ slot[1] < slot[2]
           /\ Eligible(providerId)
           /\ conflictingAppointment(appointments, providerId, slot[1], slot[2]) = {})
          => /\ resp' = created <=> (now <= slot[1] /\ slot[1] <= now + Horizon)
             /\ slot[1] < now => resp' = PastBooking
             /\ slot[1] > now + Horizon => resp' = BookingTooFarOut]_vars

C9_Witness ==
    /\ resp = created
    /\ \E i, j \in DOMAIN appointments :
        /\ appointments[i].startTime = now
        /\ appointments[j].startTime = now + Horizon

(* C10: a create request for a provider whose licenseVerified or           *)
(* backgroundCheck is false fails with ProviderNotEligible and stores      *)
(* nothing, whatever the interval and the appointments that exist.         *)
C10_ProviderNotEligible ==
    [][\A providerId \in ProviderIds, slot \in WindowSlots :
          (/\ CreateAppointment("client1", providerId, slot[1], slot[2])
           /\ (~providers[providerId].licenseVerified \/ ~providers[providerId].backgroundCheck))
          => (resp' = ProviderNotEligible /\ appointments' = appointments)]_vars

C10_Witness ==
    /\ resp = ProviderNotEligible
    /\ providers["prov3"].licenseVerified
    /\ ~providers["prov3"].backgroundCheck
    /\ \E id \in DOMAIN appointments : appointments[id].providerId = "prov3"

(* C11: the duration stored with every appointment is the number of       *)
(* minutes between its stored startTime and endTime, as the create         *)
(* handler derives it.                                                     *)
C11_DurationDerived ==
    \A id \in DOMAIN appointments :
        appointments[id].duration =
            duration(appointments[id].startTime, appointments[id].endTime)

(* C12: every stored appointment has                                       *)
(* totalAmount = hourlyRate x durationMinutes / 60, durationMinutes being  *)
(* the minutes between its stored startTime and endTime.                   *)
C12_TotalAmountDerived ==
    \A id \in DOMAIN appointments :
        appointments[id].totalAmount.num * 60 =
            appointments[id].hourlyRate
                * duration(appointments[id].startTime, appointments[id].endTime)
                * appointments[id].totalAmount.den

(* C13: the totalAmount stored for an hourly rate in whole cents and a     *)
(* duration in whole minutes is a whole number of cents.                   *)
C13_WholeCents ==
    \A id \in DOMAIN appointments :
        (appointments[id].totalAmount.num * 100) % appointments[id].totalAmount.den = 0

(* C15: every step that moves an appointment into Cancelled sets its       *)
(* cancelledAt in that step, and an accepted cancel request, or an         *)
(* accepted update request with status Cancelled, stores the status, the   *)
(* time and the reason it supplies in that one write.                      *)
C15_CancelledAtomically ==
    [][/\ \A id \in DOMAIN appointments :
            (appointments[id].status # "CANCELLED" /\ appointments'[id].status = "CANCELLED")
            => appointments'[id].cancelledAt = Some(now)
       /\ resp'.op = "cancel" =>
            \A user \in Callers, id \in DOMAIN appointments, reason \in Option(Reasons) :
                (/\ resp' = cancelled
                 /\ CancelAppointment(user, id, reason))
                => /\ appointments'[id].status = "CANCELLED"
                   /\ appointments'[id].cancelledAt = Some(now)
                   /\ reason # None => appointments'[id].cancellationReason = reason
       /\ resp'.op = "update" =>
            \A user \in Callers, id \in DOMAIN appointments, updateData \in StatusUpdates :
                (/\ updateData.status = Some("CANCELLED")
                 /\ resp' = updated
                 /\ UpdateAppointment(user, id, updateData))
                => /\ appointments'[id].status = "CANCELLED"
                   /\ appointments'[id].cancelledAt = Some(now)
                   /\ updateData.cancellationReason # None
                      => appointments'[id].cancellationReason = updateData.cancellationReason]_vars

C15_Witness ==
    /\ resp = updated
    /\ \E i, j \in DOMAIN appointments :
        /\ statusLog[i] = <<"SCHEDULED", "CANCELLED">>
        /\ appointments[i].cancelledAt = Some(now)
        /\ appointments[i].cancellationReason = Some("sick")
        /\ statusLog[j] = <<"SCHEDULED", "CONFIRMED", "CANCELLED">>
        /\ appointments[j].cancelledAt = Some(now)
        /\ appointments[j].cancellationReason = None

(* C16: an appointment has a cancelledAt or a cancellationReason only if   *)
(* its status is Cancelled.                                                *)
C16_CancellationFieldsOnlyWhenCancelled ==
    \A id \in DOMAIN appointments :
        (appointments[id].cancelledAt # None \/ appointments[id].cancellationReason # None)
        => appointments[id].status = "CANCELLED"

(* C20: for every Cancelled appointment a cancellation notification has    *)
(* been requested from the mail service by the time the request that       *)
(* cancelled it is answered.                                               *)
C20_CancellationNotified ==
    \A id \in DOMAIN appointments :
        appointments[id].status = "CANCELLED"
        => \E mail \in outbox : mail.kind = "cancellation" /\ mail.appointmentId = id

(* C18: when the mail service fails a confirmation of a create request     *)
(* that has stored its appointment, the request is answered with the       *)
(* created appointment, and the table is as it was, the appointment        *)
(* Scheduled.                                                              *)
C18_NotificationFailureHarmless ==
    [][\A r \in Requests :
          (/\ inflight[r].pc \in {"confirmClient", "confirmProvider"}
           /\ ConfirmationAnswer(r, "failed"))
          => /\ inflight'[r].pc = "done"
             /\ inflight'[r].resp = created
             /\ resp' = created
             /\ appointments' = appointments
             /\ appointments'[inflight[r].id].status = "SCHEDULED"]_vars

C18_Witness ==
    \E r \in Requests :
        /\ inflight[r].pc = "done"
        /\ inflight[r].resp = created
        /\ resp = created
        /\ appointments[inflight[r].id].status = "SCHEDULED"
        /\ confirmation(inflight[r].id, providers[inflight[r].providerId].userId) \notin outbox

(* C19: a create request that has passed all its checks is answered,       *)
(* whether or not the mail service ever answers.                           *)
C19_CompletesWithoutMail ==
    \A r \in Requests :
        (inflight[r].pc \in {"insert", "confirmClient", "confirmProvider"})
            ~> (inflight[r].pc = "done")

(* C14: no step changes the clientId, the providerId, the hourlyRate or    *)
(* the totalAmount of a stored appointment, whether it is an update, a     *)
(* status change, a cancellation, a payment confirmation, a refund, a      *)
(* webhook or a change of the provider's rate.                             *)
C14_SnapshotImmutable ==
    [][\A id \in DOMAIN appointments :
          /\ id \in DOMAIN appointments'
          /\ appointments'[id].clientId = appointments[id].clientId
          /\ appointments'[id].providerId = appointments[id].providerId
          /\ appointments'[id].hourlyRate = appointments[id].hourlyRate
          /\ appointments'[id].totalAmount = appointments[id].totalAmount]_vars

C14_Witness ==
    /\ Len(appointments) = 2
    /\ providers["prov1"].hourlyRate = 150
    /\ appointments[1].hourlyRate = 120
    /\ appointments[1].totalAmount = totalAmount(120, 1)
    /\ appointments[1].startTime = 2
    /\ appointments[1].status = "CANCELLED"
    /\ appointments[1].paymentStatus = "REFUNDED"
    /\ appointments[2].hourlyRate = 150

(* C17: an update or cancel request for an id that is not stored is        *)
(* answered NotFound; one for a stored appointment from a caller who is    *)
(* not an admin, its client or the user of its provider is answered        *)
(* Forbidden; both leave the table as it was, and no other request is      *)
(* answered NotFound or Forbidden.                                         *)
C17_AccessControl ==
    [][/\ resp'.op = "update" =>
            \A user \in AccessCallers, id \in AppointmentIds, updateData \in AccessUpdates :
                UpdateAppointment(user, id, updateData)
                => IF id \notin DOMAIN appointments
                   THEN resp' = NotFound("update") /\ appointments' = appointments
                   ELSE IF ~Authorised(user, id)
                   THEN resp' = Forbidden("update") /\ appointments' = appointments
                   ELSE resp' \notin {NotFound("update"), Forbidden("update")}
       /\ resp'.op = "cancel" =>
            \A user \in AccessCallers, id \in AppointmentIds :
                CancelAppointment(user, id, Some("sick"))
                => IF id \notin DOMAIN appointments
                   THEN resp' = NotFound("cancel") /\ appointments' = appointments
                   ELSE IF ~Authorised(user, id)
                   THEN resp' = Forbidden("cancel") /\ appointments' = appointments
                   ELSE resp' \notin {NotFound("cancel"), Forbidden("cancel")}]_vars

C17_Witness ==
    /\ resp = Forbidden("cancel")
    /\ \E i, j \in DOMAIN appointments :
        /\ appointments[i].providerId = "prov1"
        /\ appointments[i].status = "CANCELLED"
        /\ appointments[j].providerId = "prov2"
        /\ appointments[j].status = "CONFIRMED"

(* C21: a create request for a proper interval [a, b) inside the booking   *)
(* window, to an eligible provider who has a non-terminal appointment      *)
(* ending at a or starting at b and none that overlaps [a, b), is          *)
(* answered with the created appointment, stored as Scheduled.             *)
C21_BackToBackAccepted ==
    [][resp'.op = "create" =>
          \A slot \in RebookingSlots :
              (/\ slot[1] < slot[2]
               /\ Eligible("prov1")
               /\ now <= slot[1]
               /\ slot[1] <= now + Horizon
               /\ \E id \in DOMAIN appointments :
                      /\ appointments[id].providerId = "prov1"
                      /\ appointments[id].status \in NonTerminal
                      /\ \/ appointments[id].endTime = slot[1]
                         \/ appointments[id].startTime = slot[2]
               /\ Blocking("prov1", slot[1], slot[2]) = {}
               /\ CreateAppointment("client1", "prov1", slot[1], slot[2]))
              => /\ resp' = created
                 /\ appointments'[Len(appointments')].status = "SCHEDULED"]_vars

(* C22: a create request is answered with a conflict only if a             *)
(* non-terminal appointment of its provider touches its interval, and a    *)
(* request for the provider and the interval of a cancelled appointment    *)
(* that no such appointment touches is answered with the created           *)
(* appointment.                                                            *)
C22_OnlyActiveSameProviderBlocks ==
    [][resp'.op = "create" =>
          \A providerId \in {"prov1", "prov2"}, slot \in RebookingSlots :
              CreateAppointment("client1", providerId, slot[1], slot[2])
              => /\ resp' = SchedulingConflict
                    => Touching(providerId, slot[1], slot[2]) # {}
                 /\ (/\ Touching(providerId, slot[1], slot[2]) = {}
                     /\ \E id \in DOMAIN appointments :
                            /\ appointments[id].providerId = providerId
                            /\ appointments[id].status = "CANCELLED"
                            /\ appointments[id].startTime = slot[1]
                            /\ appointments[id].endTime = slot[2])
                    => resp' = created]_vars

C22_Witness ==
    /\ resp = created
    /\ Len(appointments) = 2
    /\ appointments[1].status = "CANCELLED"
    /\ appointments[2].status = "SCHEDULED"
    /\ appointments[2].providerId = appointments[1].providerId
    /\ appointments[2].startTime = appointments[1].startTime
    /\ appointments[2].endTime = appointments[1].endTime
    /\ appointments[1].startTime < appointments[1].endTime

(* C23: a create request is answered with the error of the first check it *)
(* fails, in the order provider eligibility, slot validation, conflict     *)
(* detection, and an appointment is stored only when it fails none.        *)
C23_CheckOrder ==
    [][resp'.op = "create" =>
          \A providerId \in ProviderIds, slot \in WindowSlots :
              CreateAppointment("client1", providerId, slot[1], slot[2])
              => /\ IF ~Eligible(providerId)
                    THEN resp' = ProviderNotEligible
                    ELSE IF SlotErrors(slot[1], slot[2]) # {}
                    THEN resp' \in SlotErrors(slot[1], slot[2])
                    ELSE IF conflictingAppointment(appointments, providerId,
                                                   slot[1], slot[2]) # {}
                    THEN resp' = SchedulingConflict
                    ELSE resp' = created
                 /\ appointments' # appointments
                    => /\ Eligible(providerId)
                       /\ SlotErrors(slot[1], slot[2]) = {}
                       /\ conflictingAppointment(appointments, providerId,
                                                 slot[1], slot[2]) = {}]_vars

(* C24: no step removes an appointment: every stored id stays stored, a   *)
(* cancellation answered with success leaves its appointment stored as     *)
(* Cancelled, and an appointment whose last written status is Completed    *)
(* is stored as Completed.                                                 *)
C24_NeverDeleted ==
    [][/\ DOMAIN appointments \subseteq DOMAIN appointments'
       /\ resp' = cancelled
          => \E id \in DOMAIN appointments :
                 /\ appointments[id].status # "CANCELLED"
                 /\ id \in DOMAIN appointments'
                 /\ appointments'[id].status = "CANCELLED"
       /\ \A id \in DOMAIN statusLog' :
              statusLog'[id][Len(statusLog'[id])] \in {"COMPLETED", "CANCELLED"}
              => /\ id \in DOMAIN appointments'
                 /\ appointments'[id].status = statusLog'[id][Len(statusLog'[id])]]_vars

C24_Witness ==
    /\ Len(appointments) = 2
    /\ appointments[1].status = "COMPLETED"
    /\ appointments[1].paymentStatus = "REFUNDED"
    /\ appointments[2].status = "CANCELLED"
    /\ resp = cancelled

(* C25: a create, update or cancel request answered with an error leaves   *)
(* the appointment table, ids and fields, as it was.                       *)
C25_FailureChangesNothing ==
    [][(/\ resp'.op \in {"create", "update", "cancel"}
        /\ \/ resp'.status >= 400
           \/ resp' \in {ProviderNotEligible, PastBooking, BookingTooFarOut,
                          SchedulingConflict, IllegalStatusTransition,
                          NotFound("update"), NotFound("cancel"),
                          Forbidden("update"), Forbidden("cancel")})
       => appointments' = appointments]_vars

C25_Witness ==
    /\ resp = IllegalStatusTransition
    /\ Len(appointments) = 2
    /\ appointments[1].status = "CANCELLED"
    /\ appointments[2].status = "CONFIRMED"
    /\ appointments[2].endTime = MaxTime

(* C27: an accepted or rejected update request that carries only a status *)
(* (and, for Cancelled, a reason) leaves every other appointment as it     *)
(* was, and of its own appointment the client, the provider, the           *)
(* interval, the duration, the rate, the amount and the paymentStatus.     *)
C27_StatusUpdateFrame ==
    [][resp'.op = "update" =>
          \A id \in DOMAIN appointments, updateData \in StatusOnlyUpdates :
              UpdateAppointment("client1", id, updateData)
              => /\ DOMAIN appointments' = DOMAIN appointments
                 /\ \A other \in DOMAIN appointments \ {id} :
                        appointments'[other] = appointments[other]
                 /\ \A field \in {"clientId", "providerId", "startTime", "endTime",
                                   "duration", "hourlyRate", "totalAmount", "paymentStatus"} :
                        appointments'[id][field] = appointments[id][field]
                 /\ updateData.status # Some("CANCELLED")
                    => /\ appointments'[id].cancelledAt = appointments[id].cancelledAt
                       /\ appointments'[id].cancellationReason =
                              appointments[id].cancellationReason]_vars

C27_Witness ==
    /\ resp = updated
    /\ Len(appointments) = 1
    /\ appointments[1].status = "CANCELLED"
    /\ appointments[1].cancellationReason = Some("sick")
    /\ appointments[1].paymentStatus = "COMPLETED"
    /\ appointments[1].duration = 1
    /\ statusLog[1] = <<"SCHEDULED", "CONFIRMED", "CANCELLED">>

(* C28: a payment confirmation, a refund or a payment webhook changes      *)
(* nothing of an appointment but its paymentStatus; and in every state,    *)
(* with any appointment's paymentStatus replaced by any other value, the   *)
(* conflict check of every create request and the checks of every update   *)
(* and cancel request give the answer they give in that state.             *)
C28_PaymentStatusIndependent ==
    /\ [][resp'.op \in {"confirm", "refund", "webhook"}
             => /\ DOMAIN appointments' = DOMAIN appointments
                /\ \A id \in DOMAIN appointments :
                       appointments'[id] =
                           [appointments[id] EXCEPT
                               !.paymentStatus = appointments'[id].paymentStatus]]_vars
    /\ [](\A id \in DOMAIN appointments, paymentStatus \in PaymentStatuses :
             LET rows == [appointments EXCEPT ![id].paymentStatus = paymentStatus]
             IN  /\ \A slot \in {<<1, 3>>, <<2, MaxTime>>} :
                        conflictCheck(rows, "prov1", slot[1], slot[2])
                            = conflictCheck(appointments, "prov1", slot[1], slot[2])
                 /\ \A target \in AppointmentIds :
                        /\ \A updateData \in MoneyUpdates :
                               updateCheck(rows, providers, "client1", target, updateData)
                                   = updateCheck(appointments, providers, "client1",
                                                 target, updateData)
                        /\ cancelCheck(rows, providers, "slp1", target)
                               = cancelCheck(appointments, providers, "slp1", target))

C28_Witness ==
    /\ resp = SchedulingConflict
    /\ Len(appointments) = 1
    /\ appointments[1].status = "CONFIRMED"
    /\ appointments[1].paymentStatus = "REFUNDED"
    /\ Len(payments) = 1
    /\ payments[1].status = "REFUNDED"

(* C26: whatever the interleaving of the reads and writes of update and   *)
(* cancel requests on one appointment, each status persisted follows the   *)
(* one persisted before it by the transition table; no terminal status is  *)
(* overwritten.                                                            *)
C26_PersistedFollowsTable ==
    \A id \in DOMAIN statusLog :
        \A i \in 1..(Len(statusLog[id]) - 1) :
            <<statusLog[id][i], statusLog[id][i + 1]>> \in TransitionTable

(* C30: when a create request has answered that the appointment is        *)
(* booked, a confirmation has been asked of the mail service for the       *)
(* client and for the provider, whatever became of the client's.           *)
C30_BothConfirmationsIssued ==
    \A r \in Requests :
        (inflight[r].pc = "done" /\ inflight[r].resp = created)
        => /\ confirmation(inflight[r].id, "client1") \in outbox
           /\ confirmation(inflight[r].id, providers[inflight[r].providerId].userId)
                  \in outbox

(* C29: for every caller, appointment and reason, the cancel route and    *)
(* an update to Cancelled with that reason are accepted or rejected        *)
(* alike, and an accepted one writes what the other would write: status    *)
(* Cancelled, cancelledAt and the reason.                                  *)
C29_CancelIsUpdate ==
    [][resp'.op \in {"cancel", "update"} =>
          \A user \in AccessCallers, id \in AppointmentIds, reason \in Option(CancelReasons) :
              /\ CancelAppointment(user, id, reason)
                 => /\ (resp'.status = 200)
                        <=> /\ validUpdateBody(cancelBody(reason))
                            /\ updateCheck(appointments, providers, user, id,
                                           cancelBody(reason)) = NoResponse
                    /\ resp'.status = 200
                        => appointments'[id] =
                               applyUpdate(appointments[id], cancelBody(reason), now)
              /\ ValidatedUpdate(user, id, cancelBody(reason))
                 => /\ (resp'.status = 200)
                        <=> cancelCheck(appointments, providers, user, id) = NoResponse
                    /\ resp'.status = 200
                        => appointments' = cancelWrite(appointments, id, reason, now)]_vars

====
